---- MODULE Spec2Model ----
(***************************************************************************)
(* Ground station of new_ground_station: the inbound telemetry queue, the  *)
(* broadcaster task (main.py broadcast_telemetry), the WebSocket client    *)
(* set (main.py connected_clients), the control endpoints and the          *)
(* StorageManager / FlightSession pair of storage.py with the files they   *)
(* keep under flight_logs/ and backups/.                                   *)
(*                                                                         *)
(* Everything runs on one asyncio event loop: a step of the model is the   *)
(* code a task runs between two suspensions.  The StorageManager methods   *)
(* hold no await, so each is one step; broadcast_message suspends at every *)
(* client.send_text.                                                       *)
(*                                                                         *)
(* Representation: Python None is <<>> and a present value v is <<v>>.     *)
(* A float number of seconds is kept exactly, as whole seconds and         *)
(* thousandths (2.5 is [sec |-> 2, milli |-> 500]); IEEE rounding is not   *)
(* modelled.                                                               *)
(***************************************************************************)
EXTENDS Integers, Sequences, FiniteSets, TLC

(* ---- bounds of the model ---- *)
MaxLines == 2
MaxClock == 1
MaxSessions == 3

(* ---- program constants ---- *)
ExpectedFields == 29
FormatArity == 1

Clients == {"c1", "c2"}
Handlers == {"h1"}
Driver == "driver"
Publishers == {Driver} \cup Handlers

None == <<>>
Some(v) == <<v>>

(* ---- raw lines the producer may enqueue ---- *)
(* A line is abstracted to its comma-split field count, whether every      *)
(* field coerces, and the values of the fields the model follows.          *)
(* cur_time is in milliseconds; altitude, a float with one decimal, is     *)
(* kept in tenths of a metre.                                              *)
MkLine(n, ok, t, alt) == [nfields |-> n, coerces |-> ok, cur_time |-> t, altitude |-> alt]
Lines ==
    { MkLine(29, TRUE, 1000, 1523), MkLine(29, TRUE, 2500, 1530), MkLine(28, TRUE, 3000, 1540),
      MkLine(29, FALSE, 3500, 1550) }

(* utils.py mock_telemetry_producer: the line it builds at flight_time t   *)
(* (altitude = 10 + 50 t - 2 t^2 with t in seconds, here in tenths)        *)
MockLine(t) == MkLine(29, TRUE, t, 100 + (t \div 2) - ((t * t) \div 50000))

(* ---- models.py ---- *)
(* The record TelemetryData.from_csv builds from the 29 fields of the line *)
(* of test_broadcaster.py: int fields as they are, bool(int(x)) fields as  *)
(* booleans, float fields as scaled integers (altitude in tenths, the      *)
(* others in hundredths).                                                  *)
TestRecord ==
    [cur_time |-> 12000, gps_lat |-> 401234567, gps_lng |-> -1051234567, gps_alt |-> 1523000,
     accel_x |-> 1520, accel_y |-> 30, accel_z |-> -10,
     gyro_x |-> 5, gyro_y |-> -2, gyro_z |-> 10, hg_accel |-> 9810,
     altitude |-> 1523, velocity |-> 2540, smooth_vel |-> 2480, pressure |-> 101325,
     temperature |-> 2250, launchsite_msl |-> 30000,
     airbrake_cont |-> TRUE, ab_servo_pct |-> 4550, cnrd_servo_pct |-> 1230,
     drogue_pyro_cont_1 |-> TRUE, drogue_pyro_cont_2 |-> TRUE,
     main_pyro_cont_1 |-> FALSE, main_pyro_cont_2 |-> FALSE,
     flight_index |-> 1, ellipse_on |-> TRUE, cameras_on |-> FALSE,
     battery_voltage |-> 1260, flight_stage |-> 2]
(* the record of a line: the fields the model follows are the line's, the  *)
(* others those of the test line                                           *)
Telemetry(t, alt) == [TestRecord EXCEPT !.cur_time = t, !.altitude = alt]

from_csv_lenient(csv_line) ==
    IF ~csv_line.coerces THEN [raised |-> TRUE, value |-> None]
    ELSE [raised |-> FALSE,
          value |-> <<[TestRecord EXCEPT !.cur_time = csv_line.cur_time,
                                         !.altitude = csv_line.altitude]>>]

from_csv_truncating(csv_line) ==
    IF csv_line.nfields < 29 THEN [raised |-> TRUE, value |-> None]
    ELSE IF ~csv_line.coerces THEN [raised |-> TRUE, value |-> None]
    ELSE [raised |-> FALSE,
          value |-> <<[TestRecord EXCEPT !.cur_time = csv_line.cur_time,
                                         !.altitude = csv_line.altitude]>>]

(* TelemetryData.from_csv: the field count is checked before any field is  *)
(* coerced; a field that does not coerce, or a value pydantic rejects,     *)
(* raises ValueError; the record is built by one constructor call.         *)
from_csv(csv_line) ==
    IF csv_line.nfields # ExpectedFields THEN [raised |-> TRUE, value |-> None]
    ELSE IF ~csv_line.coerces THEN [raised |-> TRUE, value |-> None]
    ELSE [raised |-> FALSE,
          value |-> Some(Telemetry(csv_line.cur_time, csv_line.altitude))]

(* x / 1000.0: a number of seconds, kept as whole seconds and thousandths *)
MsToSeconds(ms) == [sec |-> ms \div 1000, milli |-> ms % 1000]

(* x / d for an integer x: a float, kept exactly as floor, remainder and   *)
(* divisor                                                                 *)
Scaled(x, d) == [int |-> x \div d, frac |-> x % d, per |-> d]

get_gps_alt_millimeters(telemetry) == Scaled(telemetry.gps_alt, 1)

(* TelemetryData.get_gps_lat_degrees, get_gps_lng_degrees, get_gps_alt_meters *)
get_gps_lat_degrees(telemetry) == Scaled(telemetry.gps_lat, 10000000)
get_gps_lng_degrees(telemetry) == Scaled(telemetry.gps_lng, 10000000)
get_gps_alt_meters(telemetry) == Scaled(telemetry.gps_alt, 1000)

(* int(x) of a bool *)
IntOfBool(b) == IF b THEN 1 ELSE 0

(* ---- utils.py ---- *)
format_for_frontend(telemetry) ==
    LET time == MsToSeconds(telemetry.cur_time)
        Point(source, value) == [time |-> time, source |-> source, value |-> value]
    IN  << Point("altitude", telemetry.altitude),
           Point("velocity", telemetry.velocity),
           Point("smooth_vel", telemetry.smooth_vel),
           Point("battery_voltage", telemetry.battery_voltage),
           Point("accelx", telemetry.accel_x),
           Point("accely", telemetry.accel_y),
           Point("accelz", telemetry.accel_z),
           Point("gyrox", telemetry.gyro_x),
           Point("gyroy", telemetry.gyro_y),
           Point("gyroz", telemetry.gyro_z),
           Point("hg_accel", telemetry.hg_accel),
           Point("temp", telemetry.temperature),
           Point("pressure", telemetry.pressure),
           Point("lat", get_gps_lat_degrees(telemetry)),
           Point("long", get_gps_lng_degrees(telemetry)),
           Point("gps_alt", get_gps_alt_meters(telemetry)),
           Point("stage", telemetry.flight_stage),
           Point("ab_servo", telemetry.ab_servo_pct),
           Point("cnrd_servo", telemetry.cnrd_servo_pct),
           Point("drogue_cont_1", IntOfBool(telemetry.drogue_pyro_cont_1)),
           Point("drogue_cont_2", IntOfBool(telemetry.drogue_pyro_cont_2)),
           Point("main_cont_1", IntOfBool(telemetry.main_pyro_cont_1)),
           Point("main_cont_2", IntOfBool(telemetry.main_pyro_cont_2)),
           Point("airbrake_cont", IntOfBool(telemetry.airbrake_cont)) >>

CallFormatAnyArity(args) ==
    [raised |-> FALSE,
     value |-> << [time |-> [sec |-> args[1].cur_time \div 1000, milli |-> args[1].cur_time % 1000],
                   source |-> "altitude", value |-> args[1].altitude] >>]

(* A Python call of format_for_frontend with the positional arguments      *)
(* args: the function takes FormatArity parameters, any other count raises *)
(* TypeError before the body runs.                                         *)
CallFormat(args) ==
    IF Len(args) = FormatArity
    THEN [raised |-> FALSE, value |-> format_for_frontend(args[1])]
    ELSE [raised |-> TRUE, value |-> <<>>]

VARIABLES
    queue,                \* telemetry_queue: the lines not yet dequeued
    unfinished,           \* telemetry_queue._unfinished_tasks
    produced,             \* number of lines enqueued so far
    connected_clients,    \* main.connected_clients
    wsState,              \* per client: "idle" | "open" | "broken"
    pc,                   \* per task: "idle" (not in a fan-out) | "bcast"
    bc,                   \* per task: its broadcast_message frame
    flight_time,          \* mock_telemetry_producer's flight_time, in milliseconds
    drv,                  \* what the driver did with the last line it dequeued
    lastRecord,           \* the record of the latest add_telemetry call
    takeoff_offset_time,
    takeoff_wall_time,
    last_telemetry_time,
    current_session,
    nsessions,            \* FlightSession objects created so far
    handles,              \* the sessions whose csv_file handle is open, by id
    fs,                   \* the files on disk: path -> rows
    clock,                \* the wall clock, in whole seconds
    result,               \* the last value a StorageManager operation returned
    published,            \* the last message handed to broadcast_message, and how many were
    inbox,                \* per client: the session of the latest reset sent to it, or 0
    staleAt,              \* per client: the publishes that had ended when it connected
    driverTask,           \* broadcaster_task: "running" | "cancelling" | "ended"
    phase,                \* lifespan: "serving" | "closing" | "stopped"
    closing,              \* the frame of lifespan's shutdown loop
    running,              \* the task the event loop is running, or "none"
    at                    \* per task: the statement it is at (event-loop view)

storeVars == <<takeoff_offset_time, takeoff_wall_time, last_telemetry_time,
               current_session, nsessions, handles, fs>>
hubVars == <<connected_clients, pc, bc, published, inbox>>
lifeVars == <<phase, closing>>
loopVars == <<running, at>>
vars == <<queue, unfinished, produced, flight_time, connected_clients, wsState, pc, bc, drv,
          lastRecord,
          takeoff_offset_time, takeoff_wall_time, last_telemetry_time, current_session,
          nsessions, handles, fs, clock, result, published, inbox, staleAt, driverTask,
          phase, closing, running, at>>

(* ======================= files ======================= *)
CurrentCsv == <<"flight_logs", "current.csv">>
Stamped(dir, prefix, timestamp) == <<dir, prefix, timestamp>>

Header == [kind |-> "header"]
(* a data row; its first column, the ISO wall-clock timestamp, is not followed *)
Row(now, telemetry) == [kind |-> "row", data |-> telemetry]

WriteFile(files, path, rows) == [p \in DOMAIN files \cup {path} |-> IF p = path THEN rows ELSE files[p]]
RemoveFile(files, path) == [p \in DOMAIN files \ {path} |-> files[p]]

(* shutil.copy: the destination is created or overwritten *)
_copy_file(files, src, dest) == WriteFile(files, dest, files[src])

(* shutil.move: the destination is created or overwritten, the source goes *)
_move_file(files, src, dest) == RemoveFile(WriteFile(files, dest, files[src]), src)

(* datetime.now().strftime("%Y-%m-%d_%H-%M-%S"): resolution of one second *)
_generate_timestamp(now) == now

(* ======================= FlightSession ======================= *)
(* open(csv_path, 'w') creates or truncates the file; the header goes to   *)
(* the handle's buffer and reaches the disk at the next flush or close.    *)
NewSession(id, now) ==
    [id |-> id, start_time |-> now, telemetry_buffer |-> <<>>, closed |-> FALSE,
     unflushed |-> <<Header>>]
OpenCurrent(files) == WriteFile(files, CurrentCsv, <<>>)

Flushed(session) == [session EXCEPT !.unflushed = <<>>]
FlushTo(files, session) == WriteFile(files, CurrentCsv, files[CurrentCsv] \o session.unflushed)

(* FlightSession.close: flushes and closes unless already closed *)
Closed(session) ==
    IF session.closed THEN session ELSE [Flushed(session) EXCEPT !.closed = TRUE]
CloseTo(files, session) == IF session.closed THEN files ELSE FlushTo(files, session)

(* FlightSession.add_telemetry *)
SessionAdd(session, now, telemetry) ==
    [session EXCEPT !.telemetry_buffer = Append(@, telemetry), !.unflushed = <<>>]
SessionAddTo(files, session, now, telemetry) ==
    WriteFile(files, CurrentCsv,
              files[CurrentCsv] \o session.unflushed \o <<Row(now, telemetry)>>)

HandlesKeptOnClose(open, session) == open

(* the open csv_file handles after FlightSession.close and after           *)
(* FlightSession.__init__'s open()                                         *)
HandlesAfterClose(open, session) == open \ {session.id}
HandlesAfterOpen(open, id) == open \cup {id}

(* ======================= StorageManager ======================= *)
(* what a control operation returned; serial flips at every operation *)
Result(op, status, filename, offset, time, data) ==
    [op |-> op, status |-> status, filename |-> filename, takeoff_offset |-> offset,
     takeoff_time |-> time, data |-> data, serial |-> 1 - result.serial]

(* StorageManager.__init__: the files left after construction over files0 *)
RecoverCurrent(files0, now) ==
    IF CurrentCsv \in DOMAIN files0
    THEN _move_file(files0, CurrentCsv, Stamped("backups", "recovery", _generate_timestamp(now)))
    ELSE files0

add_telemetry_marking(telemetry) ==
    /\ last_telemetry_time' = <<[sec |-> telemetry.cur_time \div 1000,
                                 milli |-> telemetry.cur_time % 1000]>>
    /\ takeoff_offset_time' = last_telemetry_time'
    /\ current_session' = [current_session EXCEPT !.telemetry_buffer = Append(@, telemetry),
                                                  !.unflushed = <<>>]
    /\ fs' = [fs EXCEPT ![<<"flight_logs", "current.csv">>] =
                  @ \o current_session.unflushed \o <<[kind |-> "row", data |-> telemetry]>>]
    /\ UNCHANGED <<takeoff_wall_time, nsessions, handles>>

(* StorageManager.add_telemetry; raises ValueError (write to a closed      *)
(* file) after the buffer append when the session's handle is closed.      *)
AddRaises == current_session.closed
add_telemetry(telemetry) ==
    /\ last_telemetry_time' = Some(MsToSeconds(telemetry.cur_time))
    /\ current_session' =
           IF current_session.closed
           THEN [current_session EXCEPT !.telemetry_buffer = Append(@, telemetry)]
           ELSE SessionAdd(current_session, clock, telemetry)
    /\ fs' = IF current_session.closed THEN fs
             ELSE SessionAddTo(fs, current_session, clock, telemetry)
    /\ UNCHANGED <<takeoff_offset_time, takeoff_wall_time, nsessions, handles>>

ClearNeverFails == FALSE
ClearBackupInLogDir == Stamped("flight_logs", "pre_flight", _generate_timestamp(clock))
OffsetOfBoot(last) == Some(MsToSeconds(0))

(* StorageManager.clear_data *)
ClearFails == last_telemetry_time = None
ClearBackupPath == Stamped("backups", "pre_flight", _generate_timestamp(clock))
(* the offset clear_data records: the last received telemetry time *)
TakeoffOffsetAtClear(last) == last
ClearResult ==
    IF ClearFails
    THEN Result("clear", "error", None, None, None, None)
    ELSE Result("clear", "success", Some(ClearBackupPath),
                TakeoffOffsetAtClear(last_telemetry_time), Some(clock), None)
clear_data ==
    IF ClearFails
    THEN UNCHANGED storeVars
    ELSE /\ fs' = OpenCurrent(_move_file(CloseTo(fs, current_session), CurrentCsv,
                                         ClearBackupPath))
         /\ takeoff_offset_time' = TakeoffOffsetAtClear(last_telemetry_time)
         /\ takeoff_wall_time' = Some(clock)
         /\ current_session' = NewSession(nsessions + 1, clock)
         /\ nsessions' = nsessions + 1
         /\ handles' = HandlesAfterOpen(HandlesAfterClose(handles, current_session),
                                        nsessions + 1)
         /\ UNCHANGED last_telemetry_time

(* clear_data when shutil.move raises: the session's file has been closed *)
(* and nothing after the move runs                                         *)
clear_data_failing ==
    /\ fs' = CloseTo(fs, current_session)
    /\ current_session' = Closed(current_session)
    /\ handles' = HandlesAfterClose(handles, current_session)
    /\ UNCHANGED <<takeoff_offset_time, takeoff_wall_time, last_telemetry_time, nsessions>>

(* csv_file.flush() on a closed file raises ValueError *)
FlushRaises == current_session.closed

(* StorageManager.save_flight *)
SaveBackupPath == Stamped("backups", "flight", _generate_timestamp(clock))
SaveArchivePath == Stamped("flight_logs", "flight", _generate_timestamp(clock))
SavedFiles(files, session) ==
    _copy_file(_copy_file(FlushTo(files, session), CurrentCsv, SaveBackupPath),
               CurrentCsv, SaveArchivePath)
save_flight_closing ==
    /\ fs' = SavedFiles(fs, current_session)
    /\ current_session' = Closed(current_session)
    /\ handles' = handles \ {current_session.id}
    /\ UNCHANGED <<takeoff_offset_time, takeoff_wall_time, last_telemetry_time, nsessions>>
save_flight ==
    /\ fs' = SavedFiles(fs, current_session)
    /\ current_session' = Flushed(current_session)
    /\ UNCHANGED <<takeoff_offset_time, takeoff_wall_time, last_telemetry_time, nsessions,
                   handles>>

(* save_flight when its k-th shutil.copy raises *)
save_flight_failing(k) ==
    /\ fs' = IF k = 1 THEN FlushTo(fs, current_session)
             ELSE _copy_file(FlushTo(fs, current_session), CurrentCsv, SaveBackupPath)
    /\ current_session' = Flushed(current_session)
    /\ UNCHANGED <<takeoff_offset_time, takeoff_wall_time, last_telemetry_time, nsessions,
                   handles>>

SavedAndClearedNoBackup(files, session) ==
    OpenCurrent(_move_file(CloseTo(files, session), CurrentCsv, SaveArchivePath))

save_and_clear_forgetting ==
    /\ fs' = [p \in (DOMAIN fs \ {CurrentCsv}) \cup {CurrentCsv, SaveBackupPath, SaveArchivePath} |->
                 IF p = CurrentCsv THEN <<>>
                 ELSE IF p \in {SaveBackupPath, SaveArchivePath}
                      THEN CloseTo(fs, current_session)[CurrentCsv]
                      ELSE fs[p]]
    /\ takeoff_offset_time' = None
    /\ takeoff_wall_time' = None
    /\ last_telemetry_time' = None
    /\ current_session' = NewSession(nsessions + 1, clock)
    /\ nsessions' = nsessions + 1
    /\ handles' = {nsessions + 1}

(* StorageManager.save_and_clear *)
SavedAndClearedFiles(files, session) ==
    OpenCurrent(_move_file(_copy_file(CloseTo(files, session), CurrentCsv, SaveBackupPath),
                           CurrentCsv, SaveArchivePath))
save_and_clear ==
    /\ fs' = SavedAndClearedFiles(fs, current_session)
    /\ takeoff_offset_time' = None
    /\ takeoff_wall_time' = None
    /\ current_session' = NewSession(nsessions + 1, clock)
    /\ nsessions' = nsessions + 1
    /\ handles' = HandlesAfterOpen(HandlesAfterClose(handles, current_session), nsessions + 1)
    /\ UNCHANGED last_telemetry_time

(* save_and_clear when its copy (k = 1) or its move (k = 2) raises: the    *)
(* session's file has been closed and nothing after the failure runs       *)
save_and_clear_failing(k) ==
    /\ fs' = IF k = 1 THEN CloseTo(fs, current_session)
             ELSE _copy_file(CloseTo(fs, current_session), CurrentCsv, SaveBackupPath)
    /\ current_session' = Closed(current_session)
    /\ handles' = HandlesAfterClose(handles, current_session)
    /\ UNCHANGED <<takeoff_offset_time, takeoff_wall_time, last_telemetry_time, nsessions>>

(* StorageManager.get_current_data -> FlightSession.get_all_data: one      *)
(* format_for_frontend(telem, takeoff_offset) call per buffered record.    *)
GetAllCalls(buffer, offset) == [i \in 1..Len(buffer) |-> CallFormat(<<buffer[i], offset>>)]
get_current_data ==
    LET calls == GetAllCalls(current_session.telemetry_buffer, takeoff_offset_time)
    IN  IF \E i \in DOMAIN calls : calls[i].raised
        THEN Result("get-current", "raised", None, takeoff_offset_time, None, None)
        ELSE Result("get-current", "success", None, takeoff_offset_time, None,
                    Some([i \in DOMAIN calls |-> calls[i].value]))

(* StorageManager.get_session_info (start_time and duration_seconds are    *)
(* wall-clock readings)                                                    *)
get_session_info ==
    [start_time |-> current_session.start_time,
     packet_count |-> Len(current_session.telemetry_buffer),
     duration_seconds |-> clock - current_session.start_time,
     takeoff_offset |-> takeoff_offset_time,
     takeoff_time |-> takeoff_wall_time]

(* ======================= broadcast_message ======================= *)
(* The frame of one broadcast_message call.  `todo` is what the set        *)
(* iterator of `for client in connected_clients` has still to yield and    *)
(* `used` the set size it recorded when it was created: CPython's set      *)
(* iterator raises RuntimeError from next() when the size differs.         *)
(* The other fields only observe the call: id the number of the call among *)
(* all broadcast_message calls, members0 the members when it               *)
(* began, quiet whether nobody else has changed the set since, left the    *)
(* members somebody else has removed since, session the id of the session  *)
(* that is current when the call begins, delivered                         *)
(* and failed the clients whose send returned and raised, ended how the    *)
(* last call of the task ended.  A frame is dropped when its call ends.    *)
IdleFrame ==
    [todo |-> {}, used |-> 0, disconnected |-> {}, msg |-> None, members0 |-> {},
     quiet |-> TRUE, left |-> {}, delivered |-> {}, failed |-> {}, ended |-> "never",
     id |-> 0, session |-> 0]
EndFrame(how) == [IdleFrame EXCEPT !.ended = how]

StaleFrame(message, clients) ==
    [todo |-> clients, used |-> Cardinality(clients), disconnected |-> {},
     msg |-> published.msg, members0 |-> clients, quiet |-> TRUE, left |-> {},
     delivered |-> {}, failed |-> {}, ended |-> "running", id |-> published.id,
     session |-> current_session'.id]

FreshFrame(message, clients) ==
    [todo |-> clients, used |-> Cardinality(clients), disconnected |-> {},
     msg |-> Some(message), members0 |-> clients, quiet |-> TRUE, left |-> {},
     delivered |-> {}, failed |-> {}, ended |-> "running", id |-> published.id + 1,
     session |-> current_session'.id]

(* await client.send_text(message) inside try/except: a send on a channel  *)
(* that is not open raises, and the client is added to disconnected.       *)
SendStep(frame, client, ws) ==
    [frame EXCEPT !.todo = @ \ {client},
                  !.disconnected = IF ws[client] = "open" THEN @ ELSE @ \cup {client},
                  !.delivered = IF ws[client] = "open" THEN @ \cup {client} ELSE @,
                  !.failed = IF ws[client] = "open" THEN @ ELSE @ \cup {client}]

(* what the clients have been sent: a reset that reaches a client is the   *)
(* latest it has seen                                                      *)
Received(box, frame, client, ws) ==
    IF /\ ws[client] = "open"
       /\ frame.msg # None
       /\ frame.msg[1].type = "clear"
       /\ frame.session > box[client]
    THEN [box EXCEPT ![client] = frame.session]
    ELSE box

PruneNothing(clients, disconnected) == clients

(* connected_clients.difference_update(disconnected) *)
Prune(clients, disconnected) == clients \ disconnected

(* the iterator's size check *)
SizeChanged(frame, clients) == Cardinality(clients) # frame.used

(* what a change of the set by somebody else does to the frames of the     *)
(* calls that are suspended in their loop                                  *)
OthersSee(frames, p, gone, seenBy, added) ==
    [q \in Publishers |->
        IF q # p /\ pc[q] = "bcast" /\ (gone # {} \/ added # {})
        THEN [frames[q] EXCEPT !.todo = (@ \ gone) \cup (IF q \in seenBy THEN added ELSE {}),
                               !.quiet = FALSE,
                               !.left = @ \cup gone]
        ELSE frames[q]]

(* broadcast_message(message) called by task p, up to its first suspension *)
(* or its return.                                                          *)
Publish(p, message) ==
    /\ UNCHANGED connected_clients
    /\ published' = [msg |-> Some(message), id |-> published.id + 1]
    /\ IF connected_clients = {}
       THEN /\ pc' = [pc EXCEPT ![p] = "idle"]
            /\ bc' = bc
            /\ inbox' = inbox
       ELSE /\ pc' = [pc EXCEPT ![p] = "bcast"]
            /\ \E c \in connected_clients :
                   /\ bc' = [bc EXCEPT ![p] =
                                SendStep(FreshFrame(message, connected_clients), c, wsState)]
                   /\ inbox' = Received(inbox, FreshFrame(message, connected_clients), c,
                                        wsState)
ReturnsAtOnce == connected_clients = {}

(* the broadcast_message calls that have ended, by number *)
EndedPublishes == (1..published.id) \ { bc[q].id : q \in { r \in Publishers : pc[r] = "bcast" } }

ClearSignalBare(offset, time) == [type |-> "clear", takeoff_offset |-> <<>>, takeoff_time |-> <<>>]

(* broadcast_clear_signal: the message it builds *)
ClearSignal(offset, time) == [type |-> "clear", takeoff_offset |-> offset, takeoff_time |-> time]

(* What the driver did with the line it dequeued last: how the pass ended, *)
(* the decoded record, the offset and the outcome of its formatter call,   *)
(* and the members its fan-out returned without having sent to.            *)
DriverDid(how, telemetry, offset, call) ==
    [last |-> how, telemetry |-> telemetry, offset |-> offset, call |-> call, missed |-> {}]

(* ======================= lifespan ======================= *)
(* The frame of lifespan's shutdown loop over connected_clients.copy():    *)
(* todo the copied members still to close, members0 the copy, attempted    *)
(* the clients close() was called on, failed those whose close() raised.   *)
IdleClosing == [todo |-> {}, members0 |-> {}, attempted |-> {}, failed |-> {}]
FreshClosing(clients) == [IdleClosing EXCEPT !.todo = clients, !.members0 = clients]

(* await client.close() inside try/except: closing a channel that is not   *)
(* open raises                                                             *)
CloseRaises(client, ws) == ws[client] # "open"
CloseStep(frame, client, ws) ==
    [frame EXCEPT !.todo = @ \ {client},
                  !.attempted = @ \cup {client},
                  !.failed = IF CloseRaises(client, ws) THEN @ \cup {client} ELSE @]

CloseNotCaught == FALSE

(* `except Exception` around client.close() *)
CloseCaught == TRUE

(* ======================= event loop ======================= *)
(* The tasks of the event loop that touch the StorageManager: the          *)
(* broadcaster task and two request handlers.                              *)
Tasks == {"driver", "h1", "h2"}

(* The statements a task runs between two suspensions, in order.  The      *)
(* driver: from telemetry_queue.get() returning, through                   *)
(* StorageManager.add_telemetry and FlightSession.add_telemetry, to the    *)
(* format_for_frontend call, whose TypeError sends it back to the get.     *)
(* A handler: the StorageManager method its endpoint calls.                *)
Body(op) ==
    CASE op = "driver" -> <<"from_csv", "set_last_time", "buffer_append", "write_row",
                            "flush", "format">>
      [] op = "clear" -> <<"check_last", "close", "move", "set_offset", "new_session">>
      [] op = "save" -> <<"flush", "copy_backup", "copy_archive">>
      [] op = "save_and_clear" -> <<"flush", "close", "copy_backup", "move", "reset_offset",
                                    "new_session">>
      [] op = "return" -> <<"return">>
(* where the task suspends when the body is through *)
Then(op) ==
    CASE op = "driver" -> "await_get"
      [] op = "clear" -> "await_send"
      [] op = "save" -> "idle"
      [] op = "save_and_clear" -> "await_send"
      [] op = "return" -> "idle"
(* what a suspended task may run when it is resumed *)
Resumes(t, where) ==
    CASE where = "await_get" -> {"driver"}
      [] where = "idle" -> {"clear", "save", "save_and_clear"}
      [] where = "await_send" -> {"return"}
Suspended(t) == at[t].i = 0

EndpointInThreadpool == FALSE

(* the endpoints are `async def`: FastAPI runs them on the event loop, as  *)
(* it runs the broadcaster task, and not in its thread pool                *)
EndpointOnLoop == TRUE
OnLoop(t) == t = "driver" \/ EndpointOnLoop

(* ======================= construction ======================= *)
(* What may lie at flight_logs/current.csv when the process starts: no     *)
(* file, or the log a crashed run left behind.                             *)
LeftoverRecord == Telemetry(500, 151)
InitialFiles == { <<>>, (CurrentCsv :> <<Header, Row(0, LeftoverRecord)>>) }

Init ==
    /\ queue = <<>>
    /\ unfinished = 0
    /\ produced = 0
    /\ connected_clients = {}
    /\ wsState = [c \in Clients |-> "idle"]
    /\ pc = [p \in Publishers |-> "idle"]
    /\ bc = [p \in Publishers |-> IdleFrame]
    /\ flight_time = 0
    /\ drv = DriverDid("none", None, None, None)
    /\ lastRecord = None
    /\ clock = 0
    /\ takeoff_offset_time = None
    /\ takeoff_wall_time = None
    /\ last_telemetry_time = None
    /\ nsessions = 1
    /\ current_session = NewSession(1, clock)
    /\ handles = HandlesAfterOpen({}, 1)
    /\ \E files0 \in InitialFiles : fs = OpenCurrent(RecoverCurrent(files0, clock))
    /\ result = [op |-> "none", status |-> "none", filename |-> None, takeoff_offset |-> None,
                 takeoff_time |-> None, data |-> None, serial |-> 0]
    /\ published = [msg |-> None, id |-> 0]
    /\ inbox = [c \in Clients |-> 0]
    /\ staleAt = [c \in Clients |-> {}]
    /\ driverTask = "running"
    /\ phase = "serving"
    /\ closing = IdleClosing
    /\ running = "none"
    /\ at = [t \in Tasks |-> [op |-> IF t = "driver" THEN "await_get" ELSE "idle", i |-> 0]]

(* The process ends, killed or exited, and starts again:                  *)
(* main.py builds its module globals anew and StorageManager.__init__ runs *)
(* over the files the last run left.  A killed process loses what its      *)
(* handle had not flushed, an exiting one flushes it.  produced and        *)
(* nsessions go on counting over the runs.                                 *)
Restart ==
    /\ nsessions < MaxSessions
    /\ \E killed \in BOOLEAN :
           fs' = OpenCurrent(RecoverCurrent(IF killed THEN fs ELSE CloseTo(fs, current_session),
                                            clock))
    /\ current_session' = NewSession(nsessions + 1, clock)
    /\ nsessions' = nsessions + 1
    /\ handles' = HandlesAfterOpen({}, nsessions + 1)
    /\ takeoff_offset_time' = None
    /\ takeoff_wall_time' = None
    /\ last_telemetry_time' = None
    /\ result' = Result("boot", "constructed", None, None, None, None)
    /\ queue' = <<>>
    /\ unfinished' = 0
    /\ flight_time' = 0
    /\ connected_clients' = {}
    /\ wsState' = [c \in Clients |-> "idle"]
    /\ pc' = [p \in Publishers |-> "idle"]
    /\ bc' = [p \in Publishers |-> IdleFrame]
    /\ drv' = DriverDid("none", None, None, None)
    /\ lastRecord' = None
    /\ published' = [msg |-> None, id |-> 0]
    /\ inbox' = [c \in Clients |-> 0]
    /\ staleAt' = [c \in Clients |-> {}]
    /\ driverTask' = "running"
    /\ phase' = "serving"
    /\ closing' = IdleClosing
    /\ running' = "none"
    /\ at' = [t \in Tasks |-> [op |-> IF t = "driver" THEN "await_get" ELSE "idle", i |-> 0]]
    /\ UNCHANGED <<produced, clock>>

(* ======================= environment ======================= *)
(* the wall clock passes a second boundary *)
Tick ==
    /\ clock < MaxClock
    /\ clock' = clock + 1
    /\ UNCHANGED <<queue, unfinished, produced, flight_time, connected_clients, wsState, pc, bc,
                   drv, lastRecord, storeVars, result>>
    /\ UNCHANGED <<published, inbox, staleAt, driverTask, lifeVars, loopVars>>

(* an outside producer puts a raw line on telemetry_queue *)
Produce ==
    /\ produced < MaxLines
    /\ \E line \in Lines : queue' = Append(queue, line)
    /\ unfinished' = unfinished + 1
    /\ produced' = produced + 1
    /\ UNCHANGED <<flight_time, connected_clients, wsState, pc, bc, drv, lastRecord, storeVars, clock, result>>
    /\ UNCHANGED <<published, inbox, staleAt, driverTask, lifeVars, loopVars>>

MockProducePrepending ==
    /\ produced < MaxLines
    /\ queue' = <<MockLine(flight_time)>> \o queue
    /\ unfinished' = unfinished + 1
    /\ produced' = produced + 1
    /\ flight_time' = flight_time + 500
    /\ UNCHANGED <<connected_clients, wsState, pc, bc, drv, lastRecord, storeVars, clock, result>>
    /\ UNCHANGED <<published, inbox, staleAt, driverTask, lifeVars, loopVars>>

(* mock_telemetry_producer: one pass of its loop, a line every 500 ms *)
MockProduce ==
    /\ produced < MaxLines
    /\ queue' = Append(queue, MockLine(flight_time))
    /\ unfinished' = unfinished + 1
    /\ produced' = produced + 1
    /\ flight_time' = flight_time + 500
    /\ UNCHANGED <<connected_clients, wsState, pc, bc, drv, lastRecord, storeVars, clock, result>>
    /\ UNCHANGED <<published, inbox, staleAt, driverTask, lifeVars, loopVars>>

(* websocket_endpoint: accept and connected_clients.add.  A suspended      *)
(* fan-out's iterator may or may not come to yield the new member.         *)
Connect ==
    \E c \in Clients :
        /\ wsState[c] = "idle"
        /\ wsState' = [wsState EXCEPT ![c] = "open"]
        /\ connected_clients' = connected_clients \cup {c}
        /\ \E seenBy \in SUBSET { q \in Publishers : pc[q] = "bcast" } :
               bc' = OthersSee(bc, "none", {}, seenBy, {c})
        /\ staleAt' = [staleAt EXCEPT ![c] = EndedPublishes]
        /\ UNCHANGED <<queue, unfinished, produced, flight_time, pc, drv, lastRecord, storeVars, clock, result>>
        /\ UNCHANGED <<published, inbox, driverTask, lifeVars, loopVars>>

(* websocket_endpoint: receive raised, finally: connected_clients.discard  *)
Disconnect ==
    \E c \in Clients :
        /\ wsState[c] # "idle"
        /\ wsState' = [wsState EXCEPT ![c] = "idle"]
        /\ connected_clients' = connected_clients \ {c}
        /\ bc' = OthersSee(bc, "none", {c} \cap connected_clients, {}, {})
        /\ staleAt' = [staleAt EXCEPT ![c] = {}]
        /\ inbox' = [inbox EXCEPT ![c] = 0]
        /\ UNCHANGED <<queue, unfinished, produced, flight_time, pc, drv, lastRecord, storeVars, clock, result>>
        /\ UNCHANGED <<published, driverTask, lifeVars, loopVars>>

(* the channel of a client breaks: sends to it raise from now on, its      *)
(* endpoint has not yet run its finally block                              *)
Break ==
    \E c \in Clients :
        /\ wsState[c] = "open"
        /\ wsState' = [wsState EXCEPT ![c] = "broken"]
        /\ UNCHANGED <<queue, unfinished, produced, flight_time, connected_clients, pc, bc, drv,
                       lastRecord, storeVars, clock, result>>
        /\ UNCHANGED <<published, inbox, staleAt, driverTask, lifeVars, loopVars>>

(* ======================= broadcast_telemetry ======================= *)
LoopCatchesNothing(exc) == FALSE

(* `except Exception` around the loop body: every exception raised while   *)
(* a record is processed is caught and the loop goes on; CancelledError is *)
(* a BaseException and ends the task.                                      *)
LoopCatches(exc) == exc # "CancelledError"
AfterRaise(exc) == IF LoopCatches(exc) THEN "running" ELSE "ended"

(* One pass of the loop body, from telemetry_queue.get() returning to the  *)
(* next suspension.                                                        *)
DriverIterate ==
    /\ driverTask = "running"
    /\ pc[Driver] = "idle"
    /\ queue # <<>>
    /\ queue' = Tail(queue)
    /\ LET parsed == from_csv(Head(queue))
       IN  IF parsed.raised
           THEN \* except (ValueError, Exception): task_done, continue
                /\ drv' = DriverDid("discarded", None, None, None)
                /\ unfinished' = unfinished - 1
                /\ UNCHANGED <<storeVars, hubVars, lastRecord, driverTask>>
           ELSE LET telemetry == parsed.value[1]
                    call == CallFormat(<<telemetry, takeoff_offset_time>>)
                IN  /\ add_telemetry(telemetry)
                    /\ lastRecord' = Some(telemetry)
                    /\ IF AddRaises
                       THEN \* except Exception: log, loop
                            /\ drv' = DriverDid("failed", Some(telemetry), None, None)
                            /\ driverTask' = AfterRaise("ValueError")
                            /\ UNCHANGED <<unfinished, hubVars>>
                       ELSE IF call.raised
                       THEN \* except Exception: log, loop
                            /\ drv' = DriverDid("failed", Some(telemetry),
                                                 Some(takeoff_offset_time), Some(call))
                            /\ driverTask' = AfterRaise("TypeError")
                            /\ UNCHANGED <<unfinished, hubVars>>
                       ELSE /\ Publish(Driver, [type |-> "telemetry", points |-> call.value])
                            /\ drv' = DriverDid(IF ReturnsAtOnce THEN "published" ELSE "sending",
                                                 Some(telemetry), Some(takeoff_offset_time),
                                                 Some(call))
                            /\ unfinished' = IF ReturnsAtOnce THEN unfinished - 1
                                             ELSE unfinished
                            /\ UNCHANGED driverTask
    /\ UNCHANGED <<produced, flight_time, wsState, clock, result>>
    /\ UNCHANGED <<staleAt, lifeVars, loopVars>>

(* A suspended broadcast_message call of task p resumes: the iterator      *)
(* checks the set size and yields the next client, which is sent to; or    *)
(* the loop ends, the failed clients are removed and the call returns to   *)
(* its caller.                                                             *)
BroadcastStep ==
    \E p \in Publishers :
        /\ pc[p] = "bcast"
        /\ p = Driver => driverTask = "running"
        /\ IF SizeChanged(bc[p], connected_clients)
           THEN \* RuntimeError: Set changed size during iteration
                /\ pc' = [pc EXCEPT ![p] = "idle"]
                /\ bc' = [bc EXCEPT ![p] = EndFrame("raised")]
                /\ drv' = IF p = Driver THEN [drv EXCEPT !.last = "failed"] ELSE drv
                /\ driverTask' = IF p = Driver THEN AfterRaise("RuntimeError") ELSE driverTask
                /\ UNCHANGED <<connected_clients, unfinished, inbox>>
           ELSE IF bc[p].todo = {}
           THEN LET removed == connected_clients \ Prune(connected_clients, bc[p].disconnected)
                IN  /\ pc' = [pc EXCEPT ![p] = "idle"]
                    /\ connected_clients' = Prune(connected_clients, bc[p].disconnected)
                    /\ bc' = [OthersSee(bc, p, removed, {}, {}) EXCEPT ![p] = EndFrame("returned")]
                    /\ drv' = IF p = Driver
                              THEN [drv EXCEPT !.last = "published",
                                               !.missed = (bc[p].members0 \cap connected_clients)
                                                          \ (bc[p].delivered \cup bc[p].failed)]
                              ELSE drv
                    /\ unfinished' = IF p = Driver THEN unfinished - 1 ELSE unfinished
                    /\ UNCHANGED <<driverTask, inbox>>
           ELSE /\ \E c \in bc[p].todo :
                      /\ bc' = [bc EXCEPT ![p] = SendStep(bc[p], c, wsState)]
                      /\ inbox' = Received(inbox, bc[p], c, wsState)
                /\ UNCHANGED <<pc, connected_clients, drv, unfinished, driverTask>>
        /\ UNCHANGED <<queue, produced, flight_time, wsState, lastRecord, storeVars, clock, result>>
        /\ UNCHANGED <<published, staleAt, lifeVars, loopVars>>

(* ======================= control endpoints ======================= *)
(* POST /telemetry/clear *)
ClearRequest ==
    \E h \in Handlers :
        /\ pc[h] = "idle"
        /\ ClearFails \/ nsessions < MaxSessions
        /\ result' = ClearResult
        /\ clear_data
        /\ IF ClearResult.status = "success"
           THEN Publish(h, ClearSignal(ClearResult.takeoff_offset, ClearResult.takeoff_time))
           ELSE UNCHANGED hubVars
        /\ UNCHANGED <<queue, unfinished, produced, flight_time, wsState, drv, lastRecord, clock>>
        /\ UNCHANGED <<staleAt, driverTask, lifeVars, loopVars>>

(* POST /telemetry/save *)
SaveRequest ==
    \E h \in Handlers :
        /\ pc[h] = "idle"
        /\ IF FlushRaises
           THEN /\ result' = Result("save", "raised", None, None, None, None)
                /\ UNCHANGED storeVars
           ELSE /\ result' = Result("save", "success", Some(SaveArchivePath), None,
                                    Some(clock), None)
                /\ save_flight
        /\ UNCHANGED <<queue, unfinished, produced, flight_time, wsState, hubVars, drv, lastRecord, clock>>
        /\ UNCHANGED <<staleAt, driverTask, lifeVars, loopVars>>

(* POST /telemetry/save-and-clear *)
SaveAndClearRequest ==
    \E h \in Handlers :
        /\ pc[h] = "idle"
        /\ nsessions < MaxSessions
        /\ IF FlushRaises
           THEN /\ result' = Result("save-and-clear", "raised", None, None, None, None)
                /\ UNCHANGED <<storeVars, hubVars>>
           ELSE /\ result' = Result("save-and-clear", "success", Some(SaveArchivePath), None,
                                    Some(clock), None)
                /\ save_and_clear
                /\ Publish(h, ClearSignal(None, None))
        /\ UNCHANGED <<queue, unfinished, produced, flight_time, wsState, drv, lastRecord, clock>>
        /\ UNCHANGED <<staleAt, driverTask, lifeVars, loopVars>>

(* POST /telemetry/clear when the file move fails: the exception leaves    *)
(* clear_data and the handler, which has no except clause                  *)
ClearRequestIOError ==
    \E h \in Handlers :
        /\ pc[h] = "idle"
        /\ ~ClearFails
        /\ result' = Result("clear", "raised", None, None, None, None)
        /\ clear_data_failing
        /\ UNCHANGED <<queue, unfinished, produced, flight_time, wsState, hubVars, drv, lastRecord, clock>>
        /\ UNCHANGED <<staleAt, driverTask, lifeVars, loopVars>>

(* POST /telemetry/save when a file copy fails *)
SaveRequestIOError ==
    \E h \in Handlers, k \in {1, 2} :
        /\ pc[h] = "idle"
        /\ ~FlushRaises
        /\ result' = Result("save", "raised", None, None, None, None)
        /\ save_flight_failing(k)
        /\ UNCHANGED <<queue, unfinished, produced, flight_time, wsState, hubVars, drv, lastRecord, clock>>
        /\ UNCHANGED <<staleAt, driverTask, lifeVars, loopVars>>

(* POST /telemetry/save-and-clear when the file copy or move fails *)
SaveAndClearRequestIOError ==
    \E h \in Handlers, k \in {1, 2} :
        /\ pc[h] = "idle"
        /\ ~FlushRaises
        /\ result' = Result("save-and-clear", "raised", None, None, None, None)
        /\ save_and_clear_failing(k)
        /\ UNCHANGED <<queue, unfinished, produced, flight_time, wsState, hubVars, drv, lastRecord, clock>>
        /\ UNCHANGED <<staleAt, driverTask, lifeVars, loopVars>>

(* GET /telemetry/current *)
GetCurrentRequest ==
    \E h \in Handlers :
        /\ pc[h] = "idle"
        /\ result' = get_current_data
        /\ UNCHANGED <<queue, unfinished, produced, flight_time, wsState, hubVars, drv, lastRecord, storeVars, clock>>
        /\ UNCHANGED <<staleAt, driverTask, lifeVars, loopVars>>

(* POST /telemetry/inject: the line is decoded once to validate it and put *)
(* on the queue when it decodes; any exception becomes an error response.  *)
(* The response is kept with the line and what from_csv made of it.        *)
InjectLines ==
    { MkLine(n, ok, t, 1523) : n \in {1, 28, 29, 30}, ok \in BOOLEAN, t \in {1000, 2500} }
Inject ==
    \E line \in InjectLines :
        LET parsed == from_csv(line)
        IN  /\ parsed.raised \/ produced < MaxLines
            /\ result' = Result("inject", IF parsed.raised THEN "error" ELSE "success",
                                None, None, None, Some([line |-> line, parsed |-> parsed]))
            /\ IF parsed.raised
               THEN UNCHANGED <<queue, unfinished, produced>>
               ELSE /\ queue' = Append(queue, line)
                    /\ unfinished' = unfinished + 1
                    /\ produced' = produced + 1
            /\ UNCHANGED <<flight_time, wsState, hubVars, drv, lastRecord, storeVars, clock>>
            /\ UNCHANGED <<staleAt, driverTask, lifeVars, loopVars>>

(* test_broadcaster.py test_format_for_frontend: a decoded record is       *)
(* formatted with the one-argument call; the records are the test's and    *)
(* variants of it in time, position and continuity flags.  The outcome is  *)
(* kept with the record.                                                   *)
TestRecords ==
    { [TestRecord EXCEPT !.cur_time = t, !.gps_lat = la, !.gps_alt = ga,
                         !.airbrake_cont = ab, !.main_pyro_cont_1 = m1] :
        t \in {12000, 2500}, la \in {401234567, -1}, ga \in {1523000, 999},
        ab \in BOOLEAN, m1 \in BOOLEAN }
test_format_for_frontend ==
    \E telemetry \in TestRecords :
        LET call == CallFormat(<<telemetry>>)
        IN  /\ result' = Result("format", IF call.raised THEN "raised" ELSE "success",
                                None, None, None,
                                Some([telemetry |-> telemetry, call |-> call]))
            /\ UNCHANGED <<queue, unfinished, produced, flight_time, wsState, hubVars, drv,
                           lastRecord, storeVars, clock>>
            /\ UNCHANGED <<staleAt, driverTask, lifeVars, loopVars>>

(* ======================= event loop ======================= *)
(* the event loop, running no task, resumes a suspended one (a thread of   *)
(* the pool needs no such turn)                                            *)
LoopResume ==
    \E t \in Tasks :
        /\ Suspended(t)
        /\ OnLoop(t) => running = "none"
        /\ \E op \in Resumes(t, at[t].op) : at' = [at EXCEPT ![t] = [op |-> op, i |-> 1]]
        /\ running' = IF OnLoop(t) THEN t ELSE running
        /\ UNCHANGED <<queue, unfinished, produced, flight_time, connected_clients, wsState, pc,
                       bc, drv, lastRecord, storeVars, clock, result, published, inbox, staleAt,
                       driverTask, lifeVars>>

(* the task that is running executes its next statement; after the last of *)
(* the body it suspends and gives the loop back                            *)
LoopStep ==
    \E t \in Tasks :
        /\ ~Suspended(t)
        /\ OnLoop(t) => running = t
        /\ IF at[t].i < Len(Body(at[t].op))
           THEN /\ at' = [at EXCEPT ![t].i = @ + 1]
                /\ UNCHANGED running
           ELSE /\ at' = [at EXCEPT ![t] = [op |-> Then(at[t].op), i |-> 0]]
                /\ running' = IF OnLoop(t) THEN "none" ELSE running
        /\ UNCHANGED <<queue, unfinished, produced, flight_time, connected_clients, wsState, pc,
                       bc, drv, lastRecord, storeVars, clock, result, published, inbox, staleAt,
                       driverTask, lifeVars>>

(* ======================= shutdown ======================= *)
(* lifespan after the yield: cancel the background tasks, then the loop    *)
(* over connected_clients.copy() up to its first await, or, with no        *)
(* client, to the end.                                                     *)
ShutdownBegin ==
    /\ phase = "serving"
    /\ driverTask' = IF driverTask = "running" THEN "cancelling" ELSE driverTask
    /\ IF connected_clients = {}
       THEN /\ phase' = "stopped"
            /\ closing' = FreshClosing({})
            /\ UNCHANGED <<connected_clients, wsState, bc>>
       ELSE \E c \in connected_clients :
               /\ closing' = CloseStep(FreshClosing(connected_clients), c, wsState)
               /\ wsState' = [wsState EXCEPT ![c] = IF @ = "open" THEN "broken" ELSE @]
               /\ IF CloseRaises(c, wsState) /\ ~CloseCaught
                  THEN phase' = "stopped"
                  ELSE phase' = "closing"
               /\ UNCHANGED <<connected_clients, bc>>
    /\ UNCHANGED <<queue, unfinished, produced, flight_time, pc, drv, lastRecord, storeVars,
                   clock, result, published, inbox, staleAt, loopVars>>

(* lifespan resumes from an await client.close(): the next client of the   *)
(* copy is closed, or the loop is over, connected_clients.clear() runs and *)
(* shutdown is complete.                                                   *)
ShutdownStep ==
    /\ phase = "closing"
    /\ IF closing.todo = {}
       THEN /\ phase' = "stopped"
            /\ connected_clients' = {}
            /\ bc' = OthersSee(bc, "none", connected_clients, {}, {})
            /\ UNCHANGED <<closing, wsState>>
       ELSE \E c \in closing.todo :
               /\ closing' = CloseStep(closing, c, wsState)
               /\ wsState' = [wsState EXCEPT ![c] = IF @ = "open" THEN "broken" ELSE @]
               /\ IF CloseRaises(c, wsState) /\ ~CloseCaught
                  THEN phase' = "stopped"
                  ELSE phase' = "closing"
               /\ UNCHANGED <<connected_clients, bc>>
    /\ UNCHANGED <<queue, unfinished, produced, flight_time, pc, drv, lastRecord, storeVars,
                   clock, result, published, inbox, staleAt, driverTask, loopVars>>

(* the cancelled broadcaster task is resumed with CancelledError, at       *)
(* telemetry_queue.get() or at a send of its fan-out, and ends             *)
DriverCancelled ==
    /\ driverTask = "cancelling"
    /\ driverTask' = AfterRaise("CancelledError")
    /\ pc' = [pc EXCEPT ![Driver] = "idle"]
    /\ bc' = [bc EXCEPT ![Driver] = IF pc[Driver] = "bcast" THEN EndFrame("cancelled") ELSE @]
    /\ UNCHANGED <<queue, unfinished, produced, flight_time, connected_clients, wsState, drv,
                   lastRecord, storeVars, clock, result, published, inbox, staleAt, lifeVars, loopVars>>

Next ==
    \/ Tick
    \/ Produce
    \/ MockProduce
    \/ Connect
    \/ Disconnect
    \/ Break
    \/ DriverIterate
    \/ BroadcastStep
    \/ ClearRequest
    \/ SaveRequest
    \/ SaveAndClearRequest
    \/ GetCurrentRequest
    \/ ClearRequestIOError
    \/ SaveRequestIOError
    \/ SaveAndClearRequestIOError
    \/ ShutdownBegin
    \/ ShutdownStep
    \/ DriverCancelled
    \/ LoopResume
    \/ LoopStep
    \/ Restart
    \/ Inject
    \/ test_format_for_frontend

Spec == Init /\ [][Next]_vars

(* The storage side alone: the runs in which the lines come from           *)
(* mock_telemetry_producer and no client ever connects, so that every      *)
(* broadcast_message call returns at its first line.                       *)
StoreNext ==
    \/ Tick
    \/ MockProduce
    \/ DriverIterate
    \/ ClearRequest
    \/ SaveRequest
    \/ SaveAndClearRequest
    \/ GetCurrentRequest

StoreSpec == Init /\ [][StoreNext]_vars

(* The hub side: clients that connect, disconnect and break while the      *)
(* resets of save-and-clear requests are fanned out, within one wall-clock *)
(* second and with no line produced.                                       *)
HubNext ==
    \/ Connect
    \/ Disconnect
    \/ Break
    \/ BroadcastStep
    \/ SaveAndClearRequest

HubSpec == Init /\ [][HubNext]_vars

(* The life of the process to its shutdown: clients come and go, the       *)
(* driver works on the mock producer's lines, and lifespan shuts down.     *)
LifeNext ==
    \/ MockProduce
    \/ Connect
    \/ Disconnect
    \/ Break
    \/ DriverIterate
    \/ ShutdownBegin
    \/ ShutdownStep
    \/ DriverCancelled

LifeSpec == Init /\ [][LifeNext]_vars

(* The storage side with what can go wrong, within one wall-clock second:  *)
(* an outside producer whose lines may not decode, and file copies and     *)
(* moves that may fail.                                                    *)
FaultNext ==
    \/ Produce
    \/ DriverIterate
    \/ ClearRequest
    \/ SaveRequest
    \/ SaveAndClearRequest
    \/ ClearRequestIOError
    \/ SaveRequestIOError
    \/ SaveAndClearRequestIOError

FaultSpec == Init /\ [][FaultNext]_vars

(* The event loop's view: which task runs which statement, and where the   *)
(* loop may switch tasks.                                                  *)
LoopNext ==
    \/ LoopResume
    \/ LoopStep

LoopSpec == Init /\ [][LoopNext]_vars

(* The control surface with live clients: the three state-changing         *)
(* endpoints, the mock producer's lines, clients that connect and break.   *)
SignalNext ==
    \/ MockProduce
    \/ DriverIterate
    \/ Connect
    \/ Break
    \/ BroadcastStep
    \/ ClearRequest
    \/ SaveRequest
    \/ SaveAndClearRequest

SignalSpec == Init /\ [][SignalNext]_vars

(* Runs of the process one after the other over the same directories: the  *)
(* driver logs the mock producer's lines, the operator saves, and the      *)
(* process is restarted.                                                   *)
BootNext ==
    \/ Tick
    \/ MockProduce
    \/ DriverIterate
    \/ SaveRequest
    \/ Restart

BootSpec == Init /\ [][BootNext]_vars

(* The queue between the mock producer and the driver, with clients that   *)
(* connect and break and resets that are fanned out to them.  The event    *)
(* loop resumes the broadcaster task whenever its telemetry_queue.get()    *)
(* can return: the driver's pass is weakly fair.                           *)
QueueNext ==
    \/ MockProduce
    \/ DriverIterate
    \/ Connect
    \/ Break
    \/ BroadcastStep
    \/ ClearRequest

QueueSpec == Init /\ [][QueueNext]_vars /\ WF_vars(DriverIterate)

(* The decoder and the formatter on their own: lines are injected through  *)
(* the endpoint that validates them, the driver decodes what was queued,   *)
(* and records are formatted as the test formats them.                     *)
CodecNext ==
    \/ Inject
    \/ DriverIterate
    \/ test_format_for_frontend

CodecSpec == Init /\ [][CodecNext]_vars

(* ======================= properties ======================= *)
(* the rows of the current log: those on disk and those still buffered in  *)
(* the session's handle                                                    *)
LogRows == fs[CurrentCsv] \o current_session.unflushed
RowsOf(buffer) == [i \in 1..Len(buffer) |-> Row(clock, buffer[i])]
(* this step is a control operation op of the StorageManager *)
ControlStep(op) == result'.serial # result.serial /\ result'.op = op
(* this step ends a broadcast_message call of task p *)
CallEnds(p) == pc[p] = "bcast" /\ pc'[p] = "idle"

(* C1: when a publish during which nobody else changed the subscriber set  *)
(* completes, every member was sent to, exactly the subscribers whose send *)
(* failed are removed and all others stay members; and a fan-out only ever *)
(* has current members left to send to, so a removed subscriber is not     *)
(* sent to unless it has connected again.                                  *)
C1_FailedSubscribersPruned ==
    [][\A p \in Publishers :
          /\ (CallEnds(p) /\ bc[p].quiet)
                => /\ bc'[p].ended = "returned"
                   /\ bc[p].delivered \cup bc[p].failed = bc[p].members0
                   /\ connected_clients' = bc[p].members0 \ bc[p].failed
          /\ pc'[p] = "bcast" => bc'[p].todo \subseteq connected_clients']_vars
C1_Witness ==
    \E p \in Publishers, c, d \in Clients :
        /\ pc[p] = "idle" /\ bc[p].ended = "returned"
        /\ wsState[c] = "broken" /\ c \notin connected_clients
        /\ d \in connected_clients

(* C2: a publish during which subscribers connect or disconnect is not     *)
(* aborted: it ends by returning, having delivered to every subscriber     *)
(* that was a member at its start and has neither left nor failed, and     *)
(* having removed every subscriber whose send failed.                      *)
C2_FanOutSurvivesMembershipChange ==
    [][\A p \in Publishers :
          CallEnds(p)
             => /\ bc'[p].ended = "returned"
                /\ bc[p].members0 \ (bc[p].left \cup bc[p].failed) \subseteq bc[p].delivered
                /\ bc[p].failed \cap connected_clients' = {}]_vars

(* C3: a line that decodes is appended, formatted and published: the       *)
(* driver is sending its batch or has returned from a publish that missed  *)
(* no member.                                                              *)
C3_DecodedLineIsPublished ==
    drv.telemetry # None
       => /\ lastRecord = drv.telemetry
          /\ drv.last \in {"sending", "published"}
          /\ drv.missed = {}

(* seconds as a count of thousandths, and back *)
Thousandths(x) == x.sec * 1000 + x.milli
SecondsMinus(a, b) ==
    [sec |-> (Thousandths(a) - Thousandths(b)) \div 1000,
     milli |-> (Thousandths(a) - Thousandths(b)) % 1000]
ExpectedTime(telemetry, offset) ==
    SecondsMinus(MsToSeconds(telemetry.cur_time),
                 IF offset = None THEN MsToSeconds(0) ELSE offset[1])
BatchMeetsTimeRule(batch, telemetry, offset) ==
    \A i \in DOMAIN batch :
        /\ batch[i].time = ExpectedTime(telemetry, offset)
        /\ batch[i].source = "altitude" => batch[i].value = telemetry.altitude

(* C4: whatever the takeoff offset, unset or a number, the formatter       *)
(* yields a batch whose every point has time cur_time/1000 - (offset or 0) *)
(* and the record's values, on the driver's path and in currentData.       *)
C4_FormattedTimeUsesOffset ==
    [][/\ (drv' # drv /\ drv'.call # None)
             => /\ ~drv'.call[1].raised
                /\ BatchMeetsTimeRule(drv'.call[1].value, drv'.telemetry[1],
                                      takeoff_offset_time)
       /\ ControlStep("get-current")
             => /\ result'.status = "success"
                /\ Len(result'.data[1]) = Len(current_session.telemetry_buffer)
                /\ \A i \in DOMAIN result'.data[1] :
                      BatchMeetsTimeRule(result'.data[1][i],
                                         current_session.telemetry_buffer[i],
                                         takeoff_offset_time)]_vars

(* C5: clear_data called when no record was ever appended returns an error *)
(* and changes nothing of the store: session, buffer, log, offset, wall    *)
(* time and every file stay as they were.                                  *)
C5_ClearWithoutDataChangesNothing ==
    [][(ControlStep("clear") /\ lastRecord = None)
          => /\ result'.status = "error"
             /\ UNCHANGED storeVars
             /\ ~current_session'.closed
             /\ takeoff_offset_time' = None /\ takeoff_wall_time' = None]_vars
C5_Witness ==
    /\ result.op = "clear" /\ result.status = "error"
    /\ lastRecord = None
    /\ ~current_session.closed /\ CurrentCsv \in DOMAIN fs
    /\ \A p \in DOMAIN fs : p[2] # "pre_flight"

(* C6: a successful clear_data leaves the superseded log under backups/    *)
(* with the header and one row per appended record, as it was at the call, *)
(* adds or changes nothing in flight_logs/ but current.csv, and the new    *)
(* session's buffer is empty.                                              *)
C6_ClearKeepsLogInBackups ==
    [][(ControlStep("clear") /\ result'.status = "success")
          => LET path == result'.filename[1]
             IN  /\ path[1] = "backups"
                 /\ path \in DOMAIN fs'
                 /\ fs'[path] = LogRows
                 /\ fs'[path] = <<Header>> \o RowsOf(current_session.telemetry_buffer)
                 /\ \A q \in DOMAIN fs' :
                       (q[1] = "flight_logs" /\ q # CurrentCsv)
                          => (q \in DOMAIN fs /\ fs'[q] = fs[q])
                 /\ current_session'.telemetry_buffer = <<>>
                 /\ current_session'.id # current_session.id]_vars
C6_Witness ==
    /\ result.op = "clear" /\ result.status = "success"
    /\ result.filename[1] \in DOMAIN fs
    /\ Len(fs[result.filename[1]]) = 3
    /\ current_session.telemetry_buffer = <<>>

(* C7: after a successful clear_data the takeoff offset is timestamp/1000  *)
(* of the record appended last before the call, the takeoff wall time is   *)
(* set, and the result carries that offset.                                *)
C7_OffsetIsLastRecordTime ==
    [][(ControlStep("clear") /\ result'.status = "success")
          => /\ lastRecord # None
             /\ takeoff_offset_time' = Some(MsToSeconds(lastRecord[1].cur_time))
             /\ takeoff_wall_time' # None
             /\ result'.takeoff_offset = takeoff_offset_time']_vars
C7_Witness ==
    /\ result.op = "clear" /\ result.status = "success"
    /\ takeoff_offset_time = Some([sec |-> 0, milli |-> 500])
    /\ result.takeoff_offset = takeoff_offset_time
    /\ takeoff_wall_time # None

(* C8: after save_and_clear the superseded log is gone from current.csv,   *)
(* which holds only the new session's header; flight_logs/ and backups/    *)
(* each hold a copy with the superseded log's rows; the takeoff offset and *)
(* wall time are unset and the buffer is empty.                            *)
C8_SaveAndClearArchivesAndResets ==
    [][ControlStep("save-and-clear")
          => LET archive == <<"flight_logs", "flight", clock>>
                 backup == <<"backups", "flight", clock>>
             IN  /\ result'.status = "success"
                 /\ result'.filename = Some(archive)
                 /\ LogRows = <<Header>> \o RowsOf(current_session.telemetry_buffer)
                 /\ archive \in DOMAIN fs' /\ fs'[archive] = LogRows
                 /\ backup \in DOMAIN fs' /\ fs'[backup] = LogRows
                 /\ CurrentCsv \in DOMAIN fs'
                 /\ fs'[CurrentCsv] \o current_session'.unflushed = <<Header>>
                 /\ current_session'.id # current_session.id
                 /\ current_session'.telemetry_buffer = <<>>
                 /\ takeoff_offset_time' = None
                 /\ takeoff_wall_time' = None]_vars
C8_Witness ==
    /\ result.op = "save-and-clear" /\ result.status = "success"
    /\ result.filename[1] \in DOMAIN fs
    /\ Len(fs[result.filename[1]]) = 3
    /\ <<"backups", "flight", result.filename[1][3]>> \in DOMAIN fs
    /\ LogRows = <<Header>>
    /\ lastRecord # None /\ takeoff_offset_time = None

(* C9: save_flight leaves the live session as it was (same session, same   *)
(* buffer, same log rows, handle open, same offset, wall time and last     *)
(* producer time); all it does is leave a copy of the log in flight_logs/  *)
(* and one in backups/; and an append adds its row to the current log of   *)
(* the same session.                                                       *)
C9_SaveLeavesSessionLive ==
    [][/\ ControlStep("save")
             => LET archive == <<"flight_logs", "flight", clock>>
                    backup == <<"backups", "flight", clock>>
                IN  /\ current_session'.id = current_session.id
                    /\ current_session'.telemetry_buffer = current_session.telemetry_buffer
                    /\ ~current_session.closed /\ ~current_session'.closed
                    /\ CurrentCsv \in DOMAIN fs'
                    /\ fs'[CurrentCsv] \o current_session'.unflushed = LogRows
                    /\ UNCHANGED <<takeoff_offset_time, takeoff_wall_time,
                                   last_telemetry_time, nsessions>>
                    /\ DOMAIN fs' = DOMAIN fs \cup {archive, backup}
                    /\ fs'[archive] = LogRows /\ fs'[backup] = LogRows
                    /\ \A q \in DOMAIN fs \ {CurrentCsv, archive, backup} : fs'[q] = fs[q]
       /\ lastRecord' # lastRecord
             => /\ current_session'.id = current_session.id
                /\ current_session'.telemetry_buffer
                      = Append(current_session.telemetry_buffer, lastRecord'[1])
                /\ fs'[CurrentCsv] \o current_session'.unflushed
                      = LogRows \o <<Row(clock, lastRecord'[1])>>]_vars
C9_Witness ==
    /\ result.op = "save" /\ result.status = "success"
    /\ result.filename[1] \in DOMAIN fs
    /\ Len(fs[result.filename[1]]) = 2
    /\ Len(LogRows) = 3
    /\ Len(current_session.telemetry_buffer) = 2
    /\ ~current_session.closed

(* C10: every file once written under flight_logs/ (other than             *)
(* current.csv) or backups/ keeps existing with the same rows, through     *)
(* every operation, two operations within one clock second included.       *)
C10_ArtifactsAreNeverOverwritten ==
    [][\A p \in DOMAIN fs :
          p # CurrentCsv => (p \in DOMAIN fs' /\ fs'[p] = fs[p])]_vars

(* this step is the driver dequeuing a line *)
Dequeues == queue # <<>> /\ Len(queue') < Len(queue)
(* a line that does not decode: a wrong field count or a field whose text  *)
(* is no number                                                            *)
Undecodable(line) == line.nfields # ExpectedFields \/ ~line.coerces

(* C11: a dequeued line that fails to decode is dropped: session, buffer,  *)
(* log files, last producer time and the hub stay as they were, nothing is *)
(* published, and the driver is alive and waiting, able to take the next   *)
(* line as soon as there is one.                                           *)
C11_BadLineIsDiscarded ==
    /\ [][(Dequeues /\ Undecodable(Head(queue)))
             => /\ UNCHANGED <<storeVars, lastRecord, hubVars>>
                /\ drv'.last = "discarded"
                /\ driverTask' = "running" /\ pc'[Driver] = "idle"]_vars
    /\ []((drv.last = "discarded" /\ queue # <<>>) => ENABLED DriverIterate)
C11_Witness ==
    /\ drv.last = "discarded"
    /\ lastRecord = None /\ last_telemetry_time = None
    /\ current_session.telemetry_buffer = <<>>
    /\ queue # <<>> /\ ~Undecodable(Head(queue))

(* C12: while the process serves, the driver task is alive whatever was    *)
(* raised while it processed a record; after a failed pass it is back at   *)
(* the head of its loop, and whenever it waits there and a line is queued  *)
(* it can dequeue it.                                                      *)
C12_ErrorsDoNotEndDriver ==
    phase = "serving"
       => /\ driverTask = "running"
          /\ drv.last = "failed" => pc[Driver] = "idle"
          /\ (pc[Driver] = "idle" /\ queue # <<>>) => ENABLED DriverIterate
C12_Witness ==
    /\ drv.last = "failed" /\ drv.call = None
    /\ current_session.closed
    /\ queue # <<>>
    /\ driverTask = "running"

(* C13: a successful clear hands broadcast_message one reset that carries  *)
(* the new takeoff offset and time, a successful save-and-clear one reset  *)
(* with both null, every other control operation publishes nothing, and    *)
(* no reset is published otherwise; with members in the set the fan-out of *)
(* the reset has begun.                                                    *)
C13_ResetPublishedOnReplacement ==
    [][/\ (ControlStep("clear") /\ result'.status = "success")
             => /\ published'.id = published.id + 1
                /\ takeoff_offset_time' # None /\ takeoff_wall_time' # None
                /\ published'.msg = Some([type |-> "clear",
                                          takeoff_offset |-> takeoff_offset_time',
                                          takeoff_time |-> takeoff_wall_time'])
       /\ (ControlStep("save-and-clear") /\ result'.status = "success")
             => /\ published'.id = published.id + 1
                /\ published'.msg = Some([type |-> "clear", takeoff_offset |-> None,
                                          takeoff_time |-> None])
       /\ (result'.serial # result.serial
              /\ ~(result'.op \in {"clear", "save-and-clear"} /\ result'.status = "success"))
             => published' = published
       /\ (published' # published /\ published'.msg[1].type = "clear")
             => /\ result'.serial # result.serial
                /\ result'.op \in {"clear", "save-and-clear"}
                /\ result'.status = "success"
                /\ connected_clients # {}
                      => \E h \in Handlers : pc'[h] = "bcast" /\ bc'[h].msg = published'.msg]_vars
C13_Witness ==
    /\ result.op = "clear" /\ result.status = "success"
    /\ published.msg # None
    /\ published.msg[1].takeoff_offset = Some([sec |-> 0, milli |-> 500])
    /\ \E h \in Handlers : pc[h] = "bcast" /\ bc[h].delivered # {}

(* the task is inside a StorageManager operation *)
InControlOp(t) == ~Suspended(t) /\ at[t].op \in {"clear", "save", "save_and_clear"}
(* the driver has appended to the buffer and has not yet written and       *)
(* flushed the row                                                         *)
MidAppend ==
    /\ ~Suspended("driver")
    /\ Body(at["driver"].op)[at["driver"].i] \in {"write_row", "flush"}

(* C14: the driver is never between its buffer append and its row write    *)
(* while a handler is inside a StorageManager operation, and no two        *)
(* handlers are inside StorageManager operations at once.                  *)
C14_ControlOpsExcludeAppend ==
    /\ ~(MidAppend /\ \E h \in Tasks \ {"driver"} : InControlOp(h))
    /\ \A g, h \in Tasks \ {"driver"} : (InControlOp(g) /\ InControlOp(h)) => g = h
C14_Witness ==
    /\ at["h1"].op = "await_send"
    /\ InControlOp("h2") /\ Body(at["h2"].op)[at["h2"].i] = "close"

(* C15: a control operation in which a file copy or move failed leaves the *)
(* session's log open at the current path, and an append after it adds the *)
(* record to the buffer and its row to the log.                            *)
C15_FailedFileOpKeepsSessionLive ==
    [][/\ (result'.serial # result.serial /\ result'.status = "raised")
             => /\ ~current_session'.closed
                /\ CurrentCsv \in DOMAIN fs'
       /\ (lastRecord' # lastRecord /\ CurrentCsv \in DOMAIN fs)
             => /\ current_session'.telemetry_buffer
                      = Append(current_session.telemetry_buffer, lastRecord'[1])
                /\ CurrentCsv \in DOMAIN fs'
                /\ fs'[CurrentCsv] \o current_session'.unflushed
                      = LogRows \o <<Row(clock, lastRecord'[1])>>]_vars

(* C16: when shutdown is complete the driver no longer runs and the        *)
(* current session's log is flushed and closed.                            *)
C16_ShutdownClosesLog ==
    phase = "stopped"
       => /\ driverTask # "running"
          /\ current_session.closed
          /\ current_session.unflushed = <<>>

(* C17: the shutdown loop works on the members at its start; when shutdown *)
(* completes close has been attempted on each of them, whether or not a    *)
(* close raised, and the subscriber set is empty.                          *)
C17_ShutdownClosesEverySubscriber ==
    [][/\ (phase = "serving" /\ phase' # "serving")
             => closing'.members0 = connected_clients
       /\ (phase # "stopped" /\ phase' = "stopped")
             => /\ closing'.attempted = closing'.members0
                /\ connected_clients' = {}]_vars
C17_Witness ==
    /\ phase = "stopped"
    /\ closing.failed # {}
    /\ closing.attempted \ closing.failed # {}
    /\ connected_clients = {}

(* C18: the takeoff offset is unset until the first session replacement;   *)
(* it changes only when a successful clear sets it to a number or a        *)
(* save-and-clear unsets it.                                               *)
C18_OffsetChangesOnlyByClearAndSaveAndClear ==
    /\ [](nsessions = 1 => takeoff_offset_time = None)
    /\ [][takeoff_offset_time' # takeoff_offset_time
             => \/ /\ ControlStep("clear") /\ result'.status = "success"
                   /\ takeoff_offset_time' # None
                \/ /\ ControlStep("save-and-clear")
                   /\ takeoff_offset_time' = None]_vars
C18_Witness ==
    /\ takeoff_offset_time # None
    /\ result.op = "save" /\ result.status = "success"
    /\ Len(current_session.telemetry_buffer) = 1

(* C19: currentData succeeds and returns one batch per record of the       *)
(* current session's buffer, in append order, each the formatter's batch   *)
(* for that record under the current takeoff offset.                       *)
C19_CurrentDataIsCurrentBuffer ==
    [][ControlStep("get-current")
          => /\ result'.status = "success"
             /\ result'.data # None
             /\ Len(result'.data[1]) = Len(current_session.telemetry_buffer)
             /\ \A i \in 1..Len(current_session.telemetry_buffer) :
                   /\ result'.data[1][i] # <<>>
                   /\ BatchMeetsTimeRule(result'.data[1][i],
                                         current_session.telemetry_buffer[i],
                                         takeoff_offset_time)]_vars

(* the clients a fan-out has called send_text for *)
Tried(frame) == frame.delivered \cup frame.failed

(* C20: whenever a fan-out sends to a client, the message is that call's   *)
(* own, and the call is none of those that had ended when the client       *)
(* connected.                                                              *)
C20_NoReplayToLateSubscriber ==
    [][\A p \in Publishers, c \in Clients :
          (pc'[p] = "bcast" /\ c \in Tried(bc'[p])
             /\ (pc[p] # "bcast" \/ c \notin Tried(bc[p])))
             => /\ bc'[p].id \notin staleAt'[c]
                /\ pc[p] # "bcast" => bc'[p].msg = published'.msg]_vars
C20_Witness ==
    \E p \in Publishers, c \in Clients :
        /\ pc[p] = "bcast" /\ c \in bc[p].delivered
        /\ staleAt[c] # {}
        /\ bc[p].id \notin staleAt[c]
(* C21: when the StorageManager is constructed over an existing current    *)
(* log, that log is in backups under a recovery-tagged name with its       *)
(* content intact, the new session's log starts empty, and every artifact  *)
(* that was on disk before is still there with the content it had.         *)
C21_RecoveryOverwritesNothing ==
    [][ControlStep("boot")
       => LET dest == Stamped("backups", "recovery", clock)
          IN  /\ dest \in DOMAIN fs'
              /\ fs'[dest] \in {fs[CurrentCsv], fs[CurrentCsv] \o current_session.unflushed}
              /\ fs'[CurrentCsv] = <<>>
              /\ \A q \in DOMAIN fs \ {CurrentCsv} : q \in DOMAIN fs' /\ fs'[q] = fs[q]]_vars

(* the lines dequeued so far, the k-th line the mock producer enqueued and *)
(* the data rows of a file                                                 *)
Dequeued == produced - Len(queue)
Enqueued(k) == MockLine(500 * (k - 1))
DataRows(rows) == SelectSeq(rows, LAMBDA r : r.kind = "row")

(* C22: the queue neither drops nor reorders: every enqueued line is       *)
(* eventually dequeued when the driver is scheduled, the line the driver   *)
(* takes is always the oldest one not yet taken and is the one it          *)
(* processes, the rows of the log are in enqueue order, and the producer   *)
(* can always enqueue, whatever the subscribers and fan-outs are doing.    *)
C22_QueueIsFifoAndDrained ==
    /\ \A k \in 1..MaxLines : (produced >= k) ~> (Dequeued >= k)
    /\ [][Dequeues => /\ Head(queue) = Enqueued(Dequeued + 1)
                      /\ lastRecord' = from_csv(Head(queue)).value
                      /\ queue' = Tail(queue)]_vars
    /\ [][queue' # queue /\ ~Dequeues => queue' = Append(queue, Enqueued(produced + 1))]_vars
    /\ [](LET rows == DataRows(LogRows)
          IN  \A i, j \in DOMAIN rows : i < j => rows[i].data.cur_time < rows[j].data.cur_time)
    /\ [](produced < MaxLines => ENABLED MockProduce)
C22_Witness ==
    /\ produced = 2 /\ queue = <<>>
    /\ lastRecord = from_csv(Enqueued(2)).value
    /\ Len(DataRows(LogRows)) = 1
    /\ pc["h1"] = "bcast"
    /\ \E c \in connected_clients : wsState[c] = "broken"

(* this step is a clear or save-and-clear that succeeded *)
Replaces == (ControlStep("clear") \/ ControlStep("save-and-clear")) /\ result'.status = "success"

(* C23: there is one current session, the latest created, and at most one  *)
(* open log handle, which is the current session's; a session is created   *)
(* at construction and by every successful clear or save-and-clear, once,  *)
(* and by nothing else; and when the new session opens its log the handle  *)
(* of the session it replaces is closed.                                   *)
C23_OneSessionOneHandle ==
    /\ [](/\ Cardinality(handles) <= 1
          /\ handles \subseteq {current_session.id}
          /\ current_session.id = nsessions
          /\ nsessions >= 1)
    /\ [][Replaces => /\ nsessions' = nsessions + 1
                      /\ handles' = {nsessions'}
                      /\ ~current_session'.closed]_vars
    /\ [][~Replaces => nsessions' = nsessions /\ current_session'.id = current_session.id]_vars
C23_Witness ==
    /\ nsessions = 3
    /\ handles = {3}
    /\ result.op = "save-and-clear" /\ result.status = "success"
    /\ Len(current_session.telemetry_buffer) = 0

(* C24: decoding a line whose field count is not 29 fails whatever its     *)
(* fields hold: from_csv raises, no record comes back, whole or partial,   *)
(* the inject endpoint answers with an error and queues nothing.           *)
C24_WrongFieldCountNeverDecodes ==
    /\ [](result.op = "inject" /\ result.data[1].line.nfields # 29
            => /\ result.data[1].parsed.raised
               /\ result.data[1].parsed.value = None
               /\ result.status = "error")
    /\ [][ControlStep("inject") /\ result'.data[1].line.nfields # 29
            => UNCHANGED <<queue, unfinished, storeVars>>]_vars
C24_Witness ==
    /\ result.op = "inject"
    /\ result.data[1].line.nfields = 30
    /\ result.data[1].line.coerces
    /\ result.status = "error"

(* the channels of the wire format and the record field each one carries   *)
Channels ==
    {"altitude", "velocity", "smooth_vel", "battery_voltage", "accelx", "accely", "accelz",
     "gyrox", "gyroy", "gyroz", "hg_accel", "temp", "pressure", "lat", "long", "gps_alt",
     "stage", "ab_servo", "cnrd_servo", "drogue_cont_1", "drogue_cont_2", "main_cont_1",
     "main_cont_2", "airbrake_cont"}
PlainField(source, r) ==
    CASE source = "altitude" -> r.altitude
      [] source = "velocity" -> r.velocity
      [] source = "smooth_vel" -> r.smooth_vel
      [] source = "battery_voltage" -> r.battery_voltage
      [] source = "accelx" -> r.accel_x
      [] source = "accely" -> r.accel_y
      [] source = "accelz" -> r.accel_z
      [] source = "gyrox" -> r.gyro_x
      [] source = "gyroy" -> r.gyro_y
      [] source = "gyroz" -> r.gyro_z
      [] source = "hg_accel" -> r.hg_accel
      [] source = "temp" -> r.temperature
      [] source = "pressure" -> r.pressure
      [] source = "stage" -> r.flight_stage
      [] source = "ab_servo" -> r.ab_servo_pct
      [] source = "cnrd_servo" -> r.cnrd_servo_pct
FlagField(source, r) ==
    CASE source = "drogue_cont_1" -> r.drogue_pyro_cont_1
      [] source = "drogue_cont_2" -> r.drogue_pyro_cont_2
      [] source = "main_cont_1" -> r.main_pyro_cont_1
      [] source = "main_cont_2" -> r.main_pyro_cont_2
      [] source = "airbrake_cont" -> r.airbrake_cont
(* value is the quotient x / d *)
IsQuotient(value, x, d) ==
    /\ value.per = d
    /\ value.frac \in 0..(d - 1)
    /\ value.int * d + value.frac = x
PointIsRight(point, r) ==
    /\ point.time = MsToSeconds(r.cur_time)
    /\ CASE point.source = "lat" -> IsQuotient(point.value, r.gps_lat, 10000000)
         [] point.source = "long" -> IsQuotient(point.value, r.gps_lng, 10000000)
         [] point.source = "gps_alt" -> IsQuotient(point.value, r.gps_alt, 1000)
         [] point.source \in {"drogue_cont_1", "drogue_cont_2", "main_cont_1", "main_cont_2",
                              "airbrake_cont"}
              -> /\ point.value \in {0, 1}
                 /\ point.value = 1 <=> FlagField(point.source, r)
         [] OTHER -> point.value = PlainField(point.source, r)

(* C26: the formatter, called with a record, returns exactly one point for *)
(* each of the 24 channels and no other point; every point carries the     *)
(* record's time cur_time/1000 and the value of the channel's field, with  *)
(* lat and long as the integer over 1e7, gps_alt as millimetres over 1000  *)
(* and the continuity flags as 0 or 1.                                     *)
C26_OnePointPerChannel ==
    result.op = "format"
        => LET r == result.data[1].telemetry
               call == result.data[1].call
           IN  /\ ~call.raised
               /\ Len(call.value) = 24
               /\ \A ch \in Channels :
                      Cardinality({i \in DOMAIN call.value : call.value[i].source = ch}) = 1
               /\ \A i \in DOMAIN call.value :
                      call.value[i].source \in Channels /\ PointIsRight(call.value[i], r)
C26_Witness ==
    /\ result.op = "format" /\ result.status = "success"
    /\ result.data[1].telemetry.gps_lat < 0
    /\ result.data[1].telemetry.gps_alt = 999
    /\ ~result.data[1].telemetry.airbrake_cont
    /\ result.data[1].telemetry.main_pyro_cont_1
    /\ Len(result.data[1].call.value) = 24

(* this step is an add_telemetry call that returned *)
Appends ==
    /\ Len(current_session'.telemetry_buffer) = Len(current_session.telemetry_buffer) + 1
    /\ current_session'.id = current_session.id
    /\ ~current_session.closed

(* C25: in every state the current log holds as many data rows as the      *)
(* session's buffer holds records, and sessionInfo's packet_count is that  *)
(* number; an append that succeeds adds one to both and sets the last      *)
(* producer time to the record's cur_time / 1000.                          *)
C25_LogRowsMatchBuffer ==
    /\ [](/\ Len(DataRows(LogRows)) = Len(current_session.telemetry_buffer)
          /\ get_session_info.packet_count = Len(DataRows(LogRows)))
    /\ [][Appends => /\ Len(DataRows(LogRows')) = Len(DataRows(LogRows)) + 1
                     /\ last_telemetry_time' = Some(MsToSeconds(lastRecord'[1].cur_time))]_vars

(* this step sends a batch of the driver's fan-out to client c *)
DriverSendsTo(c) ==
    /\ pc'[Driver] = "bcast"
    /\ c \in bc'[Driver].delivered
    /\ ~(pc[Driver] = "bcast" /\ bc[Driver].id = bc'[Driver].id /\ c \in bc[Driver].delivered)

PassEnds == (Dequeues /\ pc'[Driver] = "idle") \/ CallEnds(Driver)

(* C28: the driver calls task_done once for every line it dequeued, on     *)
(* every path of its loop body, so that the queue's count of unfinished    *)
(* lines is zero whenever the queue is empty and the driver is waiting.    *)
C28_TaskDoneOncePerLine ==
    /\ [](queue = <<>> /\ pc[Driver] = "idle" => unfinished = 0)
    /\ [][PassEnds => unfinished' = unfinished - 1]_vars

(* the data rows of a file end with the record of that time *)
EndsAt(rows, seconds) ==
    /\ DataRows(rows) # <<>>
    /\ Some(MsToSeconds(DataRows(rows)[Len(DataRows(rows))].data.cur_time)) = seconds

(* C29: the last producer time, once set, stays set through every          *)
(* operation; clear answers with the no-data error exactly when no record  *)
(* has been appended since construction; and a clear that follows a        *)
(* save-and-clear with no append in between succeeds and takes its offset  *)
(* from the last record of the session that was archived.                  *)
C29_LastProducerTimeIsKept ==
    /\ [][last_telemetry_time # None => last_telemetry_time' # None]_vars
    /\ [][ControlStep("clear") => (result'.status = "error" <=> lastRecord = None)]_vars
    /\ [][(/\ ControlStep("clear")
           /\ result.op = "save-and-clear" /\ result.status = "success"
           /\ current_session.telemetry_buffer = <<>>
           /\ DataRows(fs[result.filename[1]]) # <<>>)
            => /\ result'.status = "success"
               /\ EndsAt(fs[result.filename[1]], result'.takeoff_offset)
               /\ takeoff_offset_time' = result'.takeoff_offset]_vars
C29_Witness ==
    /\ result.op = "clear" /\ result.status = "success"
    /\ current_session.telemetry_buffer = <<>>
    /\ \E b \in DOMAIN fs : b[2] = "pre_flight" /\ DataRows(fs[b]) = <<>>
    /\ \E a \in DOMAIN fs :
           a[1] = "flight_logs" /\ a[2] = "flight" /\ EndsAt(fs[a], takeoff_offset_time)

(* C30: every record of the current session's buffer was formatted for     *)
(* broadcast with the takeoff offset that currentData applies to it now:   *)
(* the record that is appended is formatted in the same step with the      *)
(* store's offset, and the offset changes only in steps that leave the     *)
(* buffer empty.                                                           *)
C30_StreamAndCatchUpShareOrigin ==
    /\ [][Len(current_session'.telemetry_buffer) > Len(current_session.telemetry_buffer)
            => /\ drv'.call # None
               /\ ~drv'.call[1].raised
               /\ drv'.offset = Some(takeoff_offset_time')]_vars
    /\ [][takeoff_offset_time' # takeoff_offset_time
            => current_session'.telemetry_buffer = <<>>]_vars

====
